---- MODULE Spec2Model ----
(***************************************************************************)
(* The text <-> graph synchronizer of the Reka code editor                 *)
(* (packages/react-code-editor/src/CodeEditor.tsx) and the structural      *)
(* differ diffAST it drives.                                               *)
(*                                                                         *)
(* Objects (t.Global, t.Component) live in a heap and are referred to by   *)
(* their address, so that "the same object" and "an equal object" are      *)
(* different things.  A Program is a pair of sequences of addresses.       *)
(***************************************************************************)
EXTENDS Integers, Sequences, FiniteSets, TLC

VARIABLES
    heap,                     \* address -> [name, fields] of every object in use
    \* the code editor (Spec)
    rekaProgram,              \* reka.program, the live graph
    currentStateRef,          \* the cached last-seen-from-text snapshot
    currentCodeStringRef,     \* the cached code string
    doc,                      \* the editor's document
    codemirrorView,           \* whether the EditorView exists yet
    isSynchingFromCodeMirror,
    isSynchingFromExternal,
    isTypingRef,
    timer,                    \* the debounce timer and the code it will pass
    microtask,                \* how many Promise.resolve().then jobs are queued
    emitted,                  \* the statuses onStatusChange got in the last step
    lastStatus,               \* the last status onStatusChange got
    window,                   \* graph mutations from outside since the timer started
    last,                     \* the last step, with the state it started from
    passes,                   \* text->graph passes since the last local change
    restarted,                \* whether a local change restarted a pending timer, in the
                              \* burst whose pass is pending or ran last
    \* one call of diffAST (SpecDiff)
    program,                  \* diffAST's first argument
    newProgram,               \* diffAST's second argument
    pre,                      \* heap and program as they were before the call
    called                    \* whether diffAST has been applied

editorVars == <<rekaProgram, currentStateRef, currentCodeStringRef, doc,
                codemirrorView, isSynchingFromCodeMirror, isSynchingFromExternal,
                isTypingRef, timer, microtask, emitted, lastStatus, window, last,
                passes, restarted>>

diffVars == <<program, newProgram, pre, called>>

vars == <<heap, editorVars, diffVars>>

-----------------------------------------------------------------------------
(* Bounds of the differ's inputs *)

MaxLen == 2          \* longest entry sequence drawn as an input of diffAST

DiffGlobalNames == {"text", "y", "z"}
DiffComponentNames == {"App", "Card", "Card2"}
FieldValues == {"A", "B"}

-----------------------------------------------------------------------------
(* Sequences *)

Min(a, b) == IF a < b THEN a ELSE b

SeqsUpTo(S, n) == UNION {[1..k -> S] : k \in 0..n}

Range(s) == {s[i] : i \in 1..Len(s)}

\* s without its p-th element.
Without(s, p) == SubSeq(s, 1, p - 1) \o SubSeq(s, p + 1, Len(s))

\* Array.prototype.splice(start, 0, x) with a 0-based start; a start past the
\* end of the array is clamped to its length.
SpliceIn(s, start, x) ==
    LET k == Min(start, Len(s))
    IN  SubSeq(s, 1, k) \o <<x>> \o SubSeq(s, k + 1, Len(s))

\* Array.prototype.indexOf, 1-based; 0 when x is absent.
IndexOf(s, x) ==
    IF \E i \in 1..Len(s) : s[i] = x
    THEN CHOOSE i \in 1..Len(s) : s[i] = x /\ \A j \in 1..(i - 1) : s[j] # x
    ELSE 0

\* currentComponents.splice(currentComponents.indexOf(x), 1).  indexOf gives -1
\* for an absent x, and splice(-1, 1) then removes the last element.
SpliceOutFirst(s, x) ==
    LET k == IndexOf(s, x)
    IN  IF k = 0
        THEN SubSeq(s, 1, Len(s) - 1)
        ELSE SubSeq(s, 1, k - 1) \o SubSeq(s, k + 1, Len(s))

-----------------------------------------------------------------------------
(* Objects *)

\* isEqual comparing the objects themselves instead of their names.
isEqualByReference(h, a, b) == a = b

\* isEqual of both diffAST calls: (a, b) => a.name === b.name
isEqual(h, a, b) == h[a].name = h[b].name

\* Array.prototype.find: the first element of s that is isEqual to x, 0 if none
\* (addresses start at 1).
Find(h, s, x) ==
    IF \E i \in 1..Len(s) : isEqual(h, s[i], x)
    THEN s[CHOOSE i \in 1..Len(s) :
                /\ isEqual(h, s[i], x)
                /\ \A j \in 1..(i - 1) : ~isEqual(h, s[j], x)]
    ELSE 0

\* t.merge(a, b): every field of a is overwritten by b's; a stays the same object.
merge(h, a, b) == [h EXCEPT ![a] = [name |-> h[b].name, fields |-> h[b].fields]]

-----------------------------------------------------------------------------
(* _diffASTArrayTypes *)

\* newComponents.forEach((newComponent, i) => ...), from entry i (1-based) on.
\* st = [heap, componentsToInsert]; componentsToInsert holds <<object, index>>
\* with the 0-based index of the source.
RECURSIVE MatchOrRecord(_, _, _, _)
MatchOrRecord(st, currentComponents, newComponents, i) ==
    IF i > Len(newComponents) THEN st
    ELSE
        LET newComponent == newComponents[i]
            existingComponent == Find(st.heap, currentComponents, newComponent)
        IN  IF existingComponent = 0
            THEN MatchOrRecord(
                    [st EXCEPT !.componentsToInsert =
                        Append(@, <<newComponent, i - 1>>)],
                    currentComponents, newComponents, i + 1)
            ELSE MatchOrRecord(
                    [st EXCEPT !.heap = merge(@, existingComponent, newComponent)],
                    currentComponents, newComponents, i + 1)

\* The splice position one place too far.
InsertPositionShifted(index, i) == index + i + 1

\* The position the i-th (0-based) recorded entry is spliced in at: index + i.
InsertPosition(index, i) == index + i

\* componentsToInsert.forEach(([component, index], i) => splice(index + i, 0, component))
RECURSIVE InsertRecorded(_, _, _)
InsertRecorded(currentComponents, componentsToInsert, k) ==
    IF k > Len(componentsToInsert) THEN currentComponents
    ELSE InsertRecorded(
            SpliceIn(currentComponents,
                     InsertPosition(componentsToInsert[k][2], k - 1),
                     componentsToInsert[k][1]),
            componentsToInsert, k + 1)

\* The filter without its negation: the entries incoming still holds.
UnmatchedInverted(h, newComponents, oldComponent) ==
    \E j \in 1..Len(newComponents) : isEqual(h, oldComponent, newComponents[j])

\* Whether an entry of current is dropped: no entry of newComponents isEqual to it.
Unmatched(h, newComponents, oldComponent) ==
    \A j \in 1..Len(newComponents) : ~isEqual(h, oldComponent, newComponents[j])

\* .forEach((component) => splice(indexOf(component), 1)) over the filtered copy.
RECURSIVE RemoveEach(_, _, _)
RemoveEach(currentComponents, toRemove, k) ==
    IF k > Len(toRemove) THEN currentComponents
    ELSE RemoveEach(SpliceOutFirst(currentComponents, toRemove[k]), toRemove, k + 1)

\* The first loop over newComponents, on st = [heap, program]: the matched
\* entries merged, the others recorded.  getTarget is "globals" or "components".
Matched(st, newProg, getTarget) ==
    MatchOrRecord([heap |-> st.heap, componentsToInsert |-> <<>>],
                  st.program[getTarget], newProg[getTarget], 1)

\* The second loop: the recorded entries spliced into currentComponents.
Inserted(st, matched, getTarget) ==
    [heap |-> matched.heap,
     list |-> InsertRecorded(st.program[getTarget], matched.componentsToInsert, 1)]

\* The third: the entries the filter keeps are spliced out.
Removed(st, inserted, newProg, getTarget) ==
    [heap |-> inserted.heap,
     program |-> [st.program EXCEPT ![getTarget] =
        RemoveEach(inserted.list,
                   SelectSeq(inserted.list,
                       LAMBDA c : Unmatched(inserted.heap, newProg[getTarget], c)),
                   1)]]

\* _diffASTArrayTypes(program, newProgram, getTarget, isEqual) on
\* st = [heap, program]; gives the heap and the program after it.
DiffASTArrayTypes(st, newProg, getTarget) ==
    Removed(st, Inserted(st, Matched(st, newProg, getTarget), getTarget),
            newProg, getTarget)

\* diffAST(program, newProgram): the Globals, then the Components.
diffAST(h, prog, newProg) ==
    DiffASTArrayTypes(
        DiffASTArrayTypes([heap |-> h, program |-> prog], newProg, "globals"),
        newProg, "components")

-----------------------------------------------------------------------------
(* SpecDiff: diffAST applied to every pair of bounded inputs *)

Entries(names) == [name : names, fields : FieldValues]

Names(h, s) == [i \in 1..Len(s) |-> h[s[i]].name]

UniqueKeys(h, s) == \A i, j \in 1..Len(s) : h[s[i]].name = h[s[j]].name => i = j

NoRepeat(es) == \A i, j \in 1..Len(es) : es[i].name = es[j].name => i = j

\* n consecutive addresses after address `from`.
Addresses(from, n) == [i \in 1..n |-> from + i]

\* The current sequences drawn: unique keys (the Program invariant).  On the
\* rich side up to MaxLen entries over all the names, on the plain side
\* nothing or one entry.
CurrentInputs(rich, names, name) ==
    IF rich
    THEN {s \in SeqsUpTo(Entries(names), MaxLen) : NoRepeat(s)}
    ELSE {<<>>} \cup {<<e>> : e \in Entries({name})}

\* The incoming sequences drawn: any sequence, repeated keys included.
IncomingInputs(rich, names, name) ==
    IF rich
    THEN SeqsUpTo(Entries(names), MaxLen)
    ELSE {<<>>} \cup {<<e>> : e \in Entries({name})}

EmptyProgram == [globals |-> <<>>, components |-> <<>>]

NoTimer == [pending |-> FALSE, code |-> <<>>]

NoWindow == [adds |-> {}, writes |-> {}]

NoStep == [kind |-> "none", ok |-> FALSE, code |-> <<>>, window |-> NoWindow,
           heap |-> <<>>, rekaProgram |-> EmptyProgram,
           currentStateRef |-> EmptyProgram]

\* The editor's variables while only diffAST is exercised.
EditorAbsent ==
    /\ rekaProgram = EmptyProgram
    /\ currentStateRef = EmptyProgram
    /\ currentCodeStringRef = <<>>
    /\ doc = <<>>
    /\ codemirrorView = FALSE
    /\ isSynchingFromCodeMirror = FALSE
    /\ isSynchingFromExternal = FALSE
    /\ isTypingRef = FALSE
    /\ timer = NoTimer
    /\ microtask = 0
    /\ emitted = <<>>
    /\ lastStatus = "none"
    /\ window = NoWindow
    /\ last = NoStep
    /\ passes = 0
    /\ restarted = FALSE

DiffInit ==
    /\ EditorAbsent
    /\ \E globalsRich \in BOOLEAN :
         \E g  \in CurrentInputs(globalsRich, DiffGlobalNames, "text"),
            gi \in IncomingInputs(globalsRich, DiffGlobalNames, "text"),
            c  \in CurrentInputs(~globalsRich, DiffComponentNames, "App"),
            ci \in IncomingInputs(~globalsRich, DiffComponentNames, "App") :
             LET all == g \o c \o gi \o ci
                 h == [a \in 1..Len(all) |-> all[a]]
                 p == [globals |-> Addresses(0, Len(g)),
                       components |-> Addresses(Len(g), Len(c))]
             IN  /\ heap = h
                 /\ program = p
                 /\ newProgram =
                        [globals |-> Addresses(Len(g) + Len(c), Len(gi)),
                         components |->
                            Addresses(Len(g) + Len(c) + Len(gi), Len(ci))]
                 /\ pre = [heap |-> h, program |-> p]
                 /\ called = FALSE

DiffASTCall ==
    /\ ~called
    /\ \E r \in {diffAST(heap, program, newProgram)} :
           /\ heap' = r.heap
           /\ program' = r.program
    /\ called' = TRUE
    /\ UNCHANGED <<newProgram, pre, editorVars>>

DiffNext == DiffASTCall

SpecDiff == DiffInit /\ [][DiffNext]_vars

-----------------------------------------------------------------------------
(* Text, parser and printer *)

GlobalNames == {"text"}
ComponentNames == {"App", "Card2"}

\* The values a declaration of that name is given: Card2 is only ever
\* declared one way.
FieldsOf(name) == IF name = "Card2" THEN {"A"} ELSE FieldValues

Garbage == [kind |-> "garbage", name |-> "", fields |-> ""]

\* A declaration as it stands in the text: `val name = fields;` or
\* `component name() ... fields`.
Declarations ==
    {d \in [kind : {"val"}, name : GlobalNames, fields : FieldValues]
            \cup [kind : {"component"}, name : ComponentNames, fields : FieldValues] :
        d.fields \in FieldsOf(d.name)}

OfKind(text, k) == SelectSeq(text, LAMBDA d : d.kind = k)

OfKindSet(k) == {d \in Declarations : d.kind = k}

\* Whether Parser.parseProgram(code) returns; it throws on text that is no
\* declaration and on a name declared twice.
Parses(code) ==
    /\ \A i \in 1..Len(code) : code[i] # Garbage
    /\ NoRepeat(OfKind(code, "val"))
    /\ NoRepeat(OfKind(code, "component"))

\* The message of the error Parser.parseProgram(code) throws.
ParseError(code) ==
    IF \E i \in 1..Len(code) : code[i] = Garbage
    THEN "unexpected token"
    ELSE "duplicate declaration"

\* Texts that do not parse: one that is no declaration at all, one that
\* declares a Component twice.
MalformedTexts ==
    {<<Garbage>>,
     <<[kind |-> "component", name |-> "App", fields |-> "A"],
       [kind |-> "component", name |-> "App", fields |-> "B"]>>}

\* The sequences over S in which no name comes twice.
RECURSIVE Distinct(_)
Distinct(S) ==
    {<<>>} \cup UNION {{<<d>> \o rest : rest \in Distinct({e \in S : e.name # d.name})} :
                        d \in S}

\* What the user can leave in the editor: any choice of the declarations, the
\* Globals written first and the Components in any order, or malformed text.
UserTexts ==
    {g \o c : g \in Distinct(OfKindSet("val")), c \in Distinct(OfKindSet("component"))}
        \cup MalformedTexts

\* One edit of the user: a declaration typed in, deleted or rewritten.
OneEdit(old, new) ==
    \/ /\ Len(new) = Len(old) + 1
       /\ \E p \in 1..Len(new) : Without(new, p) = old
    \/ /\ Len(old) = Len(new) + 1
       /\ \E p \in 1..Len(old) : Without(old, p) = new
    \/ /\ Len(old) = Len(new)
       /\ Cardinality({i \in 1..Len(old) : old[i] # new[i]}) = 1

Entry(d) == [name |-> d.name, fields |-> d.fields]

\* The n lowest addresses not in `used`.
FreshAddresses(used, n) ==
    LET free == (1..(Cardinality(used) + n)) \ used
    IN  [i \in 1..n |-> CHOOSE a \in free : Cardinality({b \in free : b < a}) = i - 1]

\* h with the objects es stored at the addresses as.
Allocate(h, as, es) ==
    [a \in DOMAIN h \cup Range(as) |->
        IF a \in Range(as) THEN es[IndexOf(as, a)] ELSE h[a]]

\* Parser.parseProgram(code) for a code that parses: a Program of new objects,
\* the Globals and the Components each in the order of the text.
parseProgram(h, code) ==
    LET gs == OfKind(code, "val")
        cs == OfKind(code, "component")
        as == FreshAddresses(DOMAIN h, Len(gs) + Len(cs))
    IN  [heap |-> Allocate(h, as, [i \in 1..Len(as) |->
                        IF i <= Len(gs) THEN Entry(gs[i])
                        ELSE Entry(cs[i - Len(gs)])]),
         program |-> [globals |-> SubSeq(as, 1, Len(gs)),
                      components |-> SubSeq(as, Len(gs) + 1, Len(as))]]

\* Parser.stringify(program): the Globals, then the Components.
stringify(h, prog) ==
    [i \in 1..Len(prog.globals) |->
        [kind |-> "val", name |-> h[prog.globals[i]].name,
         fields |-> h[prog.globals[i]].fields]]
    \o
    [i \in 1..Len(prog.components) |->
        [kind |-> "component", name |-> h[prog.components[i]].name,
         fields |-> h[prog.components[i]].fields]]

\* t.Schema.fromJSON(program): a deep copy, every object new.
fromJSON(h, prog) ==
    LET all == prog.globals \o prog.components
        as == FreshAddresses(DOMAIN h, Len(all))
    IN  [heap |-> Allocate(h, as, [i \in 1..Len(as) |-> h[all[i]]]),
         program |-> [globals |-> SubSeq(as, 1, Len(prog.globals)),
                      components |-> SubSeq(as, Len(prog.globals) + 1, Len(as))]]

\* The heap without the objects neither tree holds any more, the others moved
\* to the lowest addresses: the live graph's first, then the snapshot's own.
\* Which objects are one and the same is kept; the addresses are not.
Collect(h, live, snapshot) ==
    LET inLive == live.globals \o live.components
        own == SelectSeq(snapshot.globals \o snapshot.components,
                         LAMBDA a : a \notin Range(inLive))
        order == inLive \o own
        moved(s) == [i \in 1..Len(s) |-> IndexOf(order, s[i])]
    IN  [heap |-> [a \in 1..Len(order) |-> h[order[a]]],
         rekaProgram |-> [globals |-> moved(live.globals),
                          components |-> moved(live.components)],
         currentStateRef |-> [globals |-> moved(snapshot.globals),
                              components |-> moved(snapshot.components)]]

-----------------------------------------------------------------------------
(* The editor's cells, and the two callbacks that read and write them *)

ParsingStatus == [type |-> "parsing", error |-> ""]
SuccessStatus == [type |-> "success", error |-> ""]
ErrorStatus(message) == [type |-> "error", error |-> message]

Cells ==
    [currentCodeStringRef |-> currentCodeStringRef,
     doc |-> doc,
     codemirrorView |-> codemirrorView,
     isSynchingFromCodeMirror |-> isSynchingFromCodeMirror,
     isSynchingFromExternal |-> isSynchingFromExternal,
     isTypingRef |-> isTypingRef,
     timer |-> timer,
     microtask |-> microtask,
     emitted |-> <<>>]

Store(c) ==
    /\ currentCodeStringRef' = c.currentCodeStringRef
    /\ doc' = c.doc
    /\ codemirrorView' = c.codemirrorView
    /\ isSynchingFromCodeMirror' = c.isSynchingFromCodeMirror
    /\ isSynchingFromExternal' = c.isSynchingFromExternal
    /\ isTypingRef' = c.isTypingRef
    /\ timer' = c.timer
    /\ microtask' = c.microtask
    /\ emitted' = c.emitted
    /\ lastStatus' = IF c.emitted = <<>> THEN lastStatus
                     ELSE c.emitted[Len(c.emitted)].type

\* props.onStatusChange?.(status)
onStatusChange(c, status) == [c EXCEPT !.emitted = Append(@, status)]

\* A debounce that keeps the call it already holds and drops the new one.
syncCodeToStateKeepingFirst(c, code) ==
    IF c.timer.pending THEN c
    ELSE [c EXCEPT !.timer = [pending |-> TRUE, code |-> code]]

\* syncCodeToState(code): lodash debounce drops the pending call and starts the
\* timer again with this code.
syncCodeToState(c, code) == [c EXCEPT !.timer = [pending |-> TRUE, code |-> code]]

\* The update listener without its call of onStatusChange.
updateListenerSilent(c, docChanged) ==
    IF ~docChanged \/ c.isSynchingFromExternal
    THEN c
    ELSE syncCodeToState([c EXCEPT !.isTypingRef = TRUE,
                                   !.currentCodeStringRef = c.doc], c.doc)

\* The update listener without its test of isSynchingFromExternal.
updateListenerUnguarded(c, docChanged) ==
    IF ~docChanged
    THEN c
    ELSE LET typing == [c EXCEPT !.isTypingRef = TRUE,
                                 !.currentCodeStringRef = c.doc]
         IN  syncCodeToState(onStatusChange(typing, ParsingStatus),
                             typing.currentCodeStringRef)

\* EditorView.updateListener, called for every transaction of the view.
updateListener(c, docChanged) ==
    IF ~docChanged \/ c.isSynchingFromExternal
    THEN c
    ELSE LET typing == [c EXCEPT !.isTypingRef = TRUE,
                                 !.currentCodeStringRef = c.doc]
         IN  syncCodeToState(onStatusChange(typing, ParsingStatus),
                             typing.currentCodeStringRef)

\* onExternalChange without its first early return.
onExternalChangeUnguarded(c) ==
    IF ~c.codemirrorView
    THEN c
    ELSE IF c.isSynchingFromExternal = FALSE
    THEN [c EXCEPT !.isSynchingFromExternal = TRUE, !.microtask = @ + 1]
    ELSE c

\* onExternalChange queueing a job for every notification it lets through.
onExternalChangeUncoalesced(c) ==
    IF c.isSynchingFromCodeMirror \/ c.isTypingRef
    THEN c
    ELSE IF ~c.codemirrorView
    THEN c
    ELSE [c EXCEPT !.isSynchingFromExternal = TRUE, !.microtask = @ + 1]

\* onExternalChange testing isSynchingFromCodeMirror alone in its first guard.
onExternalChangeWhileTyping(c) ==
    IF c.isSynchingFromCodeMirror
    THEN c
    ELSE IF ~c.codemirrorView
    THEN c
    ELSE IF c.isSynchingFromExternal = FALSE
    THEN [c EXCEPT !.isSynchingFromExternal = TRUE, !.microtask = @ + 1]
    ELSE c

\* onExternalChange, the listener of every `change` event of reka.
onExternalChange(c) ==
    IF c.isSynchingFromCodeMirror \/ c.isTypingRef
    THEN c
    ELSE IF ~c.codemirrorView
    THEN c
    ELSE IF c.isSynchingFromExternal = FALSE
    THEN [c EXCEPT !.isSynchingFromExternal = TRUE, !.microtask = @ + 1]
    ELSE c

-----------------------------------------------------------------------------
(* The code editor *)

\* The program the editor opens on: DUMMY_PROGRAM, cut down to its first
\* Global and its first Component.
DummyProgramText ==
    <<[kind |-> "val", name |-> "text", fields |-> "A"],
      [kind |-> "component", name |-> "App", fields |-> "A"]>>

\* What `last` records of a step: its kind, the code it was given, and for a
\* sync pass the state it started from.
Step(kind, ok, code) ==
    [kind |-> kind, ok |-> ok, code |-> code, window |-> window, heap |-> heap,
     rekaProgram |-> rekaProgram, currentStateRef |-> currentStateRef]

Light(kind, code) == [NoStep EXCEPT !.kind = kind, !.code = code]

DiffAbsent ==
    /\ program = EmptyProgram
    /\ newProgram = EmptyProgram
    /\ pre = [heap |-> <<>>, program |-> EmptyProgram]
    /\ called = FALSE

\* The refs as CodeEditor's first render leaves them.
Init ==
    LET dummy == parseProgram(<<>>, DummyProgramText)
        copy == fromJSON(dummy.heap, dummy.program)
    IN  /\ heap = copy.heap
        /\ rekaProgram = dummy.program
        /\ currentStateRef = copy.program
        /\ currentCodeStringRef = stringify(dummy.heap, dummy.program)
        /\ doc = <<>>
        /\ codemirrorView = FALSE
        /\ isSynchingFromCodeMirror = FALSE
        /\ isSynchingFromExternal = FALSE
        /\ isTypingRef = FALSE
        /\ timer = NoTimer
        /\ microtask = 0
        /\ emitted = <<>>
        /\ lastStatus = "none"
        /\ window = NoWindow
        /\ last = NoStep
        /\ passes = 0
        /\ restarted = FALSE
        /\ DiffAbsent

\* The layout effect: the EditorView is created on the cached code string.  It
\* runs in the task that renders the component, before any other event.
Mount ==
    /\ ~codemirrorView
    /\ Store([Cells EXCEPT !.codemirrorView = TRUE, !.doc = currentCodeStringRef])
    /\ last' = Light("mount", <<>>)
    /\ UNCHANGED <<heap, rekaProgram, currentStateRef, window, passes, restarted,
                   diffVars>>

\* The user edits the document: a task of its own, so no microtask is queued.
Keystroke ==
    /\ codemirrorView
    /\ microtask = 0
    /\ \E text \in UserTexts :
        /\ OneEdit(doc, text)
        /\ Store(updateListener([Cells EXCEPT !.doc = text], TRUE))
        /\ last' = Light("keystroke", text)
    /\ window' = IF timer.pending THEN window ELSE NoWindow
    /\ passes' = 0
    /\ restarted' = timer.pending
    /\ UNCHANGED <<heap, rekaProgram, currentStateRef, diffVars>>

\* The debounced function ending without isTypingRef.current = false.
endSyncStillTyping(c) == [c EXCEPT !.isSynchingFromCodeMirror = FALSE]

\* The two lines that end the debounced function.
endSync(c) == [c EXCEPT !.isSynchingFromCodeMirror = FALSE, !.isTypingRef = FALSE]

\* diffAST(currentStateRef.current, newAST): the snapshot takes the parsed tree.
diffSnapshot(newAST, snapshot) == diffAST(newAST.heap, snapshot, newAST.program)

\* diffAST(reka.program, currentStateRef.current): the live graph takes the snapshot.
diffLive(first, live) ==
    [currentStateRef |-> first.program,
     result |-> diffAST(first.heap, live, first.program)]

Collected(both) ==
    Collect(both.result.heap, both.result.program, both.currentStateRef)

\* The body of reka.change in the debounced function, for a code that parsed:
\* diffAST(currentStateRef.current, newAST); diffAST(reka.program, currentStateRef.current).
applyParsed(h, live, snapshot, code) ==
    Collected(diffLive(diffSnapshot(parseProgram(h, code), snapshot), live))

\* The cells and the trees together.
With(c, trees) ==
    [cells |-> c, heap |-> trees.heap, rekaProgram |-> trees.rekaProgram,
     currentStateRef |-> trees.currentStateRef]

\* The cells as reka.change leaves them inside the debounced function: the
\* flag is up and the listeners have heard of the change.
duringChange(c) == onExternalChange([c EXCEPT !.isSynchingFromCodeMirror = TRUE])

\* The function syncCodeToState debounces, run on the cells c and the trees.
\* reka.change notifies the listeners once its callback has returned.
debounced(c, trees, code) ==
    IF c.isSynchingFromExternal
    THEN With(c, trees)
    ELSE IF Parses(code)
    THEN With(endSync(onStatusChange(duringChange(c), SuccessStatus)),
              applyParsed(trees.heap, trees.rekaProgram, trees.currentStateRef, code))
    ELSE With(endSync(onStatusChange(
                [c EXCEPT !.isSynchingFromCodeMirror = TRUE],
                ErrorStatus(ParseError(code)))),
              trees)

Trees == [heap |-> heap, rekaProgram |-> rekaProgram,
          currentStateRef |-> currentStateRef]

\* The state a callback leaves behind.
Become(r) ==
    /\ Store(r.cells)
    /\ heap' = r.heap
    /\ rekaProgram' = r.rekaProgram
    /\ currentStateRef' = r.currentStateRef

\* The debounce timer fires: a task of its own.
DebouncedSync ==
    /\ timer.pending
    /\ microtask = 0
    /\ Become(debounced([Cells EXCEPT !.timer = NoTimer], Trees, timer.code))
    /\ last' = Step(IF isSynchingFromExternal THEN "skipped" ELSE "pass",
                    Parses(timer.code), timer.code)
    /\ window' = NoWindow
    /\ passes' = passes + 1
    /\ UNCHANGED <<restarted, diffVars>>

NoExpression == "null"

\* The snapshot replaced by a copy of the live graph.
Refreshed(copy, live) == Collect(copy.heap, live, copy.program)

\* codemirrorView.dispatch(transaction): the document is replaced and the
\* update listener hears of it.
dispatch(c, newCode) == updateListener([c EXCEPT !.doc = newCode], TRUE)

\* The job replacing the document but leaving the snapshot as it was.
printedStaleSnapshot(c, trees, newCode) ==
    IF newCode = c.currentCodeStringRef
    THEN With([c EXCEPT !.isSynchingFromExternal = FALSE], trees)
    ELSE With([dispatch([c EXCEPT !.currentCodeStringRef = newCode], newCode)
                EXCEPT !.isSynchingFromExternal = FALSE],
              trees)

\* The job onExternalChange queued: print the live graph and, if the text
\* differs from the cached code string, replace the document and the snapshot.
printed(c, trees, newCode) ==
    IF newCode = c.currentCodeStringRef
    THEN With([c EXCEPT !.isSynchingFromExternal = FALSE], trees)
    ELSE With([dispatch([c EXCEPT !.currentCodeStringRef = newCode], newCode)
                EXCEPT !.isSynchingFromExternal = FALSE],
              Refreshed(fromJSON(trees.heap, trees.rekaProgram), trees.rekaProgram))

RunMicrotask ==
    /\ microtask > 0
    /\ Become(printed([Cells EXCEPT !.microtask = @ - 1], Trees,
                      stringify(heap, rekaProgram)))
    /\ last' = Step("print", stringify(heap, rekaProgram) # currentCodeStringRef,
                    currentCodeStringRef)
    /\ restarted' = (timer.pending /\ restarted)
    /\ UNCHANGED <<window, passes, diffVars>>

\* reka.change(() => ...) from outside the editor: the trees as the callback
\* left them, the notification to onExternalChange, and what `window` notes.
\* `last` tells whether the notification found a job already queued.
ChangedOutside(h, live, added, written, removed) ==
    /\ Become(With(onExternalChange(Cells), Collect(h, live, currentStateRef)))
    /\ window' = IF timer.pending
                 THEN [adds |-> (window.adds \ removed) \cup added,
                       writes |-> window.writes \cup written]
                 ELSE window
    /\ last' = [Light("external", <<>>) EXCEPT !.ok = microtask > 0]
    /\ restarted' = (timer.pending /\ restarted)
    /\ UNCHANGED <<passes, diffVars>>

\* The search that finds no Global, whatever the name.
existingGlobalNeverFound(h, globals, id) == 0

\* reka.program.globals.find((global) => global.name === id): the Global of
\* that name, 0 if there is none.
existingGlobalStateName(h, globals, id) ==
    Find(Allocate(h, <<0>>, <<[name |-> id, fields |-> ""]>>), globals, 0)

\* GlobalSettings' onChange(id, value): a Global of that name gets the parsed
\* value as its init, or a new Global is pushed.
GlobalSettingsOnChange ==
    /\ codemirrorView
    /\ \E id \in GlobalNames \cup {""}, parsedValue \in FieldValues \cup {NoExpression} :
        /\ ~(id = "" \/ parsedValue = NoExpression)
        /\ LET existing == existingGlobalStateName(heap, rekaProgram.globals, id)
               created == FreshAddresses(DOMAIN heap, 1)
           IN  IF existing = 0
               THEN ChangedOutside(
                        Allocate(heap, created,
                                 <<[name |-> id, fields |-> parsedValue]>>),
                        [rekaProgram EXCEPT !.globals = Append(@, created[1])],
                        {id}, {}, {})
               ELSE ChangedOutside(
                        [heap EXCEPT ![existing].fields = parsedValue],
                        rekaProgram, {}, {id}, {})

\* A peer's mutation arrives through the collaboration layer: a Component
\* under a name the live graph does not hold is pushed.
CollaborationAddsComponent ==
    /\ codemirrorView
    /\ \E name \in ComponentNames :
       \E fields \in FieldsOf(name) :
        /\ \A a \in Range(rekaProgram.components) : heap[a].name # name
        /\ LET created == FreshAddresses(DOMAIN heap, 1)
           IN  ChangedOutside(
                    Allocate(heap, created, <<[name |-> name, fields |-> fields]>>),
                    [rekaProgram EXCEPT !.components = Append(@, created[1])],
                    {name}, {}, {})

\* The Components a peer takes out of the live graph again.
PeerNames == {"Card2"}

\* A peer's mutation or an undo arrives the same way: a Component leaves the
\* live graph.
CollaborationRemovesComponent ==
    /\ codemirrorView
    /\ \E p \in 1..Len(rekaProgram.components) :
        /\ heap[rekaProgram.components[p]].name \in PeerNames
        /\ ChangedOutside(heap,
                          [rekaProgram EXCEPT !.components = Without(@, p)],
                          {}, {}, {heap[rekaProgram.components[p]].name})

Next ==
    \/ Mount
    \/ Keystroke
    \/ DebouncedSync
    \/ RunMicrotask
    \/ GlobalSettingsOnChange
    \/ CollaborationAddsComponent
    \/ CollaborationRemovesComponent

Spec == Init /\ [][Next]_vars

-----------------------------------------------------------------------------
(* What a call of diffAST did, side by side with its inputs *)

\* The objects of sequence s that carry key n.
WithKey(h, s, n) == {a \in Range(s) : h[a].name = n}

Keys(h, s) == {h[a].name : a \in Range(s)}

\* Entry for entry the same names and fields (a deep copy).
SameContent(h1, s1, h2, s2) ==
    /\ Len(s1) = Len(s2)
    /\ \A i \in 1..Len(s1) : h1[s1[i]] = h2[s2[i]]

\* Every key of both inputs is still carried by the very objects that carried
\* it before the call.
IdentityKeptIn(before, after, incoming) ==
    \A n \in Keys(pre.heap, before) \cap Keys(pre.heap, incoming) :
        WithKey(heap, after, n) = WithKey(pre.heap, before, n)

\* C3: after diffAST(current, incoming) every key present in both inputs is
\* stored in current under the very same object as before the call, and a call
\* against a deep copy leaves current's sequences of objects as they were.
IdentityPreserved ==
    called =>
        /\ IdentityKeptIn(pre.program.globals, program.globals, newProgram.globals)
        /\ IdentityKeptIn(pre.program.components, program.components,
                          newProgram.components)
        /\ (/\ SameContent(pre.heap, pre.program.globals,
                           pre.heap, newProgram.globals)
            /\ SameContent(pre.heap, pre.program.components,
                           pre.heap, newProgram.components))
           => program = pre.program

\* C3's case: a key of both inputs whose fields the call changed.
IdentityPreservedWitness ==
    /\ called
    /\ \E a \in Range(pre.program.components) :
            /\ a \in Range(program.components)
            /\ pre.heap[a].name = "App"
            /\ heap[a].fields # pre.heap[a].fields

\* C4 (as claimed): with unique keys in both inputs, current's keys are, in
\* order, incoming's keys after the call.
OrderMatchesIncoming ==
    (/\ called
     /\ UniqueKeys(pre.heap, newProgram.globals)
     /\ UniqueKeys(pre.heap, newProgram.components))
    => /\ Names(heap, program.globals) = Names(pre.heap, newProgram.globals)
       /\ Names(heap, program.components) = Names(pre.heap, newProgram.components)

\* C5: with unique keys in both inputs, current's key set is incoming's key set
\* after the call and no key occurs twice in current.
KeySetMatchesIncoming ==
    (/\ called
     /\ UniqueKeys(pre.heap, newProgram.globals)
     /\ UniqueKeys(pre.heap, newProgram.components))
    => /\ Keys(heap, program.globals) = Keys(pre.heap, newProgram.globals)
       /\ Keys(heap, program.components) = Keys(pre.heap, newProgram.components)
       /\ UniqueKeys(heap, program.globals)
       /\ UniqueKeys(heap, program.components)

\* C5's case: one call that both inserted an entry and removed another.
KeySetMatchesIncomingWitness ==
    /\ called
    /\ UniqueKeys(pre.heap, newProgram.globals)
    /\ UniqueKeys(pre.heap, newProgram.components)
    /\ Range(program.globals) \ Range(pre.program.globals) # {}
    /\ Range(pre.program.globals) \ Range(program.globals) # {}
    /\ Range(program.globals) \cap Range(pre.program.globals) # {}

\* incoming is before plus one entry with a new key, at position p.
OneAdded(before, incoming, p) ==
    /\ p \in 1..Len(incoming)
    /\ UniqueKeys(pre.heap, incoming)
    /\ Names(pre.heap, Without(incoming, p)) = Names(pre.heap, before)

\* incoming is before less the entry at position p.
OneRemoved(before, incoming, p) ==
    /\ p \in 1..Len(before)
    /\ UniqueKeys(pre.heap, incoming)
    /\ Names(pre.heap, incoming) = Names(pre.heap, Without(before, p))

\* The matched entries of `after` hold the fields of incoming's entry of that key.
FieldsTaken(after, incoming) ==
    \A a \in Range(after), b \in Range(incoming) :
        pre.heap[a].name = pre.heap[b].name => heap[a].fields = pre.heap[b].fields

AddRemoveIn(before, after, incoming) ==
    /\ \A p \in 1..Len(incoming) :
          OneAdded(before, incoming, p) =>
            /\ Len(after) = Len(before) + 1
            /\ after[p] = incoming[p]
            /\ Without(after, p) = before
            /\ FieldsTaken(after, incoming)
    /\ \A p \in 1..Len(before) :
          OneRemoved(before, incoming, p) =>
            /\ after = Without(before, p)
            /\ FieldsTaken(after, incoming)

\* C6: when incoming adds exactly one key, exactly one new object (incoming's)
\* appears in current at that key's index in incoming and all others keep
\* identity and position; when incoming drops exactly one key, exactly that
\* object leaves current; the kept entries take incoming's fields.
OneKeyAddedOrRemoved ==
    called =>
        /\ AddRemoveIn(pre.program.globals, program.globals, newProgram.globals)
        /\ AddRemoveIn(pre.program.components, program.components,
                       newProgram.components)

\* C6's case: from `val text = "A";` to `val text = "B"; val y = ...;`, with
\* a Component that incoming leaves as it is.
OneKeyAddedOrRemovedWitness ==
    /\ called
    /\ Len(pre.program.globals) = 1
    /\ pre.heap[pre.program.globals[1]] = [name |-> "text", fields |-> "A"]
    /\ Len(newProgram.globals) = 2
    /\ pre.heap[newProgram.globals[1]] = [name |-> "text", fields |-> "B"]
    /\ pre.heap[newProgram.globals[2]].name = "y"
    /\ program.globals = <<pre.program.globals[1], newProgram.globals[2]>>
    /\ heap[program.globals[1]].fields = "B"
    /\ Len(program.components) = 1
    /\ program.components = pre.program.components
    /\ heap[program.components[1]] = pre.heap[program.components[1]]

\* C9 (as claimed): a call whose incoming sequence repeats a key never leaves
\* two entries with the same key in current.
DuplicateIncomingRejected ==
    (/\ called
     /\ \/ ~UniqueKeys(pre.heap, newProgram.globals)
        \/ ~UniqueKeys(pre.heap, newProgram.components))
    => /\ UniqueKeys(heap, program.globals)
       /\ UniqueKeys(heap, program.components)

-----------------------------------------------------------------------------
(* What a text->graph pass did, side by side with the state it started from *)

\* The fields the sequence s holds under key n (n is in s).
FieldsUnder(h, s, n) == h[CHOOSE a \in Range(s) : h[a].name = n].fields

DeclaredNames(code, k) == [i \in 1..Len(OfKind(code, k)) |-> OfKind(code, k)[i].name]

\* The pass parsed its code and the code declares the very keys the snapshot
\* held, in their order: the user rewrote declarations, no more.
OnlyRewrites ==
    /\ last.kind = "pass"
    /\ last.ok
    /\ DeclaredNames(last.code, "val") = Names(last.heap, last.currentStateRef.globals)
    /\ DeclaredNames(last.code, "component")
            = Names(last.heap, last.currentStateRef.components)

\* Every declaration of the code is in the live graph with the fields typed.
TextApplied ==
    \A i \in 1..Len(last.code) :
        LET d == last.code[i]
            s == IF d.kind = "val" THEN rekaProgram.globals
                 ELSE rekaProgram.components
        IN  /\ d.name \in Keys(heap, s)
            /\ FieldsUnder(heap, s, d.name) = d.fields

\* C1 (as claimed): a Component pushed into the live graph from outside while
\* the debounce timer ran is still in the live graph after a pass whose text
\* parsed and only rewrote other declarations, and so is the text's edit.
RemoteComponentKept ==
    OnlyRewrites =>
        \A n \in last.window.adds \cap ComponentNames :
            /\ n \in Keys(heap, rekaProgram.components)
            /\ TextApplied

\* C2 (as claimed): a Global whose init was overwritten from outside while the
\* debounce timer ran, and whose declaration the text left as the snapshot had
\* it, still holds the value written from outside after a pass that parsed.
RemoteFieldKept ==
    (last.kind = "pass" /\ last.ok) =>
        \A n \in last.window.writes :
            (/\ n \in Keys(last.heap, last.currentStateRef.globals)
             /\ \E i \in 1..Len(last.code) :
                    /\ last.code[i].kind = "val"
                    /\ last.code[i].name = n
                    /\ last.code[i].fields =
                            FieldsUnder(last.heap, last.currentStateRef.globals, n))
            => /\ n \in Keys(heap, rekaProgram.globals)
               /\ FieldsUnder(heap, rekaProgram.globals, n)
                    = FieldsUnder(last.heap, last.rekaProgram.globals, n)

\* C7: a pass whose code does not parse leaves the live graph, the snapshot
\* and every object as they were, reports the parser's message as the one
\* status `error`, and ends with isSynchingFromCodeMirror and isTypingRef false.
ParseFailureChangesNothing ==
    (last.kind = "pass" /\ ~last.ok) =>
        /\ heap = last.heap
        /\ rekaProgram = last.rekaProgram
        /\ currentStateRef = last.currentStateRef
        /\ emitted = <<ErrorStatus(ParseError(last.code))>>
        /\ ~isSynchingFromCodeMirror
        /\ ~isTypingRef

\* C7's case: a pass on text that is no declaration, with a live graph that
\* the text, had it been applied, would have emptied.
ParseFailureChangesNothingWitness ==
    /\ last.kind = "pass"
    /\ last.code = <<Garbage>>
    /\ lastStatus = "error"
    /\ Len(rekaProgram.components) = 2
    /\ stringify(heap, currentStateRef) # stringify(heap, rekaProgram)

\* C8: the change notification of the synchronizer's own pass queues no
\* graph->text job and leaves the document as typed; the pass leaves no timer
\* behind, and no local change is followed by more than one pass.
EchoSuppressed ==
    /\ passes <= 1
    /\ last.kind = "pass" =>
        /\ microtask = 0
        /\ ~isSynchingFromExternal
        /\ ~timer.pending
        /\ doc = last.code

\* C8's case: a pass that changed the live graph, so that its notification
\* told of a real change.
EchoSuppressedWitness ==
    /\ last.kind = "pass"
    /\ last.ok
    /\ passes = 1
    /\ stringify(heap, rekaProgram) # stringify(last.heap, last.rekaProgram)

\* C10: a local change reports `parsing` and nothing else; a pass reports
\* exactly one status, `success` if its code parsed and `error` if not; and
\* while the last status is `parsing` the timer of a pass that will report
\* is still running.
StatusProtocol ==
    /\ last.kind = "keystroke" => emitted = <<ParsingStatus>>
    /\ last.kind = "pass" =>
        /\ Len(emitted) = 1
        /\ emitted[1].type = IF last.ok THEN "success" ELSE "error"
    /\ lastStatus = "parsing" => (timer.pending /\ ~isSynchingFromExternal)

\* C10's case: `parsing` was reported and the pass that followed reported
\* `success`.
StatusProtocolWitness ==
    /\ last.kind = "pass"
    /\ passes = 1
    /\ emitted = <<SuccessStatus>>
    /\ lastStatus = "success"

-----------------------------------------------------------------------------
(* The live graph and the flags in every state *)

\* C11: in every reachable state no two Globals of the live graph carry the
\* same name and no two of its Components do, whatever passes (parsed or
\* failed), prints and GlobalSettings changes came before.
LiveKeysUnique ==
    /\ UniqueKeys(heap, rekaProgram.globals)
    /\ UniqueKeys(heap, rekaProgram.components)

\* C11's case: GlobalSettings pushed a Global `text` while the user was typing
\* that very declaration back in, and the pass that followed parsed.
LiveKeysUniqueWitness ==
    /\ last.kind = "pass"
    /\ last.ok
    /\ "text" \in last.window.adds
    /\ \E i \in 1..Len(last.code) : last.code[i].name = "text"
    /\ "text" \in Keys(heap, rekaProgram.globals)
    /\ Len(rekaProgram.components) = 2

\* C12 (as claimed): a change notification from outside, arriving while no
\* pass executes (the debounce timer may be pending), leaves a graph->text job
\* queued, so that the text comes to equal the printed live graph.
ExternalChangeStartsPrint ==
    last.kind = "external" => (microtask > 0 /\ isSynchingFromExternal)

\* C13: while isSynchingFromExternal is true no step, the replacement of the
\* document by the graph->text pass included, sets isTypingRef, reports a
\* status or touches the debounce timer, and the cached code string is then
\* only ever given the text the pass printed.
IgnoredDuringGraphToText ==
    [][isSynchingFromExternal =>
        /\ isTypingRef' = isTypingRef
        /\ timer' = timer
        /\ emitted' = <<>>
        /\ lastStatus' = lastStatus
        /\ (currentCodeStringRef' # currentCodeStringRef \/ doc' # doc) =>
                currentCodeStringRef' = stringify(heap, rekaProgram)]_vars

\* C13's case: a graph->text pass has replaced the document, which told the
\* update listener of a changed document.
IgnoredDuringGraphToTextWitness ==
    /\ last.kind = "print"
    /\ doc # last.code
    /\ doc = stringify(heap, rekaProgram)
    /\ ~isTypingRef
    /\ ~timer.pending

\* C14: every local change restarts the one debounce timer with the text as
\* it then stands, so that a burst of local changes is followed by exactly
\* one pass, and that pass is given the text of the burst's last change.
DebouncedOncePerBurst ==
    /\ timer.pending =>
        /\ timer.code = doc
        /\ timer.code = currentCodeStringRef
        /\ passes = 0
    /\ last.kind \in {"pass", "skipped"} =>
        /\ last.kind = "pass"
        /\ last.code = doc
        /\ passes = 1
        /\ ~timer.pending
    /\ passes <= 1

\* C14's case: a burst of two local changes or more, then its pass.
DebouncedOncePerBurstWitness ==
    /\ last.kind = "pass"
    /\ restarted
    /\ passes = 1
    /\ last.code = doc

\* C15: isSynchingFromCodeMirror and isSynchingFromExternal are never both
\* true: not between two callbacks, not inside a text->graph pass when
\* reka.change notifies the listeners (no graph->text job is queued there),
\* and a pass never runs while a graph->text job is pending.
DirectionsExclusive ==
    /\ ~(isSynchingFromCodeMirror /\ isSynchingFromExternal)
    /\ timer.pending => ~isSynchingFromExternal
    /\ last.kind # "skipped"
    /\ (timer.pending /\ microtask = 0) =>
        /\ duringChange([Cells EXCEPT !.timer = NoTimer]).isSynchingFromCodeMirror
        /\ ~duringChange([Cells EXCEPT !.timer = NoTimer]).isSynchingFromExternal
        /\ duringChange([Cells EXCEPT !.timer = NoTimer]).microtask = 0

\* C15's case: a pass ran and changed the live graph after a change from
\* outside had been notified in its debounce window.
DirectionsExclusiveWitness ==
    /\ last.kind = "pass"
    /\ last.ok
    /\ last.window.adds \cup last.window.writes # {}
    /\ stringify(heap, rekaProgram) # stringify(last.heap, last.rekaProgram)
    /\ microtask = 0

-----------------------------------------------------------------------------
(* What a graph->text pass did *)

\* Entry for entry the same names and fields in both sequences of two Programs.
SamePrograms(h1, p1, h2, p2) ==
    /\ SameContent(h1, p1.globals, h2, p2.globals)
    /\ SameContent(h1, p1.components, h2, p2.components)

\* C16: the step that runs the graph->text job prints the live graph; if the
\* text equals the cached code string, the document, the cached code string
\* and the snapshot stay as they are; if not, the document and the cached code
\* string become the printed text and the snapshot becomes a copy of the live
\* graph, equal in content and made of objects of its own; either way
\* isSynchingFromExternal is false afterwards.
GraphToTextPass ==
    [][(microtask > 0 /\ microtask' < microtask) =>
        /\ ~isSynchingFromExternal'
        /\ IF stringify(heap, rekaProgram) = currentCodeStringRef
           THEN /\ doc' = doc
                /\ currentCodeStringRef' = currentCodeStringRef
                /\ currentStateRef' = currentStateRef
                /\ heap' = heap
           ELSE /\ doc' = stringify(heap, rekaProgram)
                /\ currentCodeStringRef' = stringify(heap, rekaProgram)
                /\ SamePrograms(heap', currentStateRef', heap', rekaProgram')
                /\ SamePrograms(heap', rekaProgram', heap, rekaProgram)
                /\ Range(currentStateRef'.globals \o currentStateRef'.components)
                        \cap Range(rekaProgram'.globals \o rekaProgram'.components)
                    = {}]_vars

\* C16's case: a pass whose printed text differed and that gave the snapshot
\* a content it did not have before.
GraphToTextPassWitness ==
    /\ last.kind = "print"
    /\ last.ok
    /\ SamePrograms(heap, currentStateRef, heap, rekaProgram)
    /\ stringify(heap, currentStateRef) # stringify(last.heap, last.currentStateRef)
    /\ ~isSynchingFromExternal

\* C17: however many changes from outside are notified before the queued
\* job has run, one job is queued and no more; it is queued exactly while
\* isSynchingFromExternal is true; and once it has run no job is left and the
\* document is the print of the live graph as the last of those changes left it.
NotificationsCoalesced ==
    /\ microtask <= 1
    /\ isSynchingFromExternal <=> microtask = 1
    /\ last.kind = "print" =>
        /\ microtask = 0
        /\ doc = stringify(heap, rekaProgram)
        /\ currentCodeStringRef = doc

\* C17's case: a change from outside was notified while the job of an
\* earlier one was still queued.
NotificationsCoalescedWitness ==
    /\ last.kind = "external"
    /\ last.ok
    /\ microtask = 1
    /\ doc # stringify(heap, rekaProgram)

-----------------------------------------------------------------------------
(* The three representations side by side *)

\* The names of the Program Parser.parseProgram makes of the text, in order.
ParsedNames(text, getTarget) ==
    Names(parseProgram(heap, text).heap, parseProgram(heap, text).program[getTarget])

\* C18 (as claimed): with no pass pending, no graph->text job queued and the
\* last pass a success, the live graph, the snapshot and the Program parsed
\* from the document hold the same Global keys in the same order, and the
\* same Component keys in the same order.
ConvergedWhenQuiescent ==
    (/\ codemirrorView
     /\ ~timer.pending
     /\ microtask = 0
     /\ lastStatus = "success"
     /\ Parses(doc))
    => /\ Names(heap, rekaProgram.globals) = ParsedNames(doc, "globals")
       /\ Names(heap, currentStateRef.globals) = ParsedNames(doc, "globals")
       /\ Names(heap, rekaProgram.components) = ParsedNames(doc, "components")
       /\ Names(heap, currentStateRef.components) = ParsedNames(doc, "components")

-----------------------------------------------------------------------------
(* The three flags *)

\* C19: isTypingRef is true exactly while the debounce timer is pending or
\* its pass is executing; inside the pass isSynchingFromCodeMirror and
\* isTypingRef are both true; isSynchingFromExternal is never true together
\* with isTypingRef; and the debounced function never returns early on
\* isSynchingFromExternal.
TypingFlagTracksTimer ==
    /\ isTypingRef <=> timer.pending
    /\ isSynchingFromCodeMirror => isTypingRef
    /\ isSynchingFromExternal => ~isTypingRef
    /\ last.kind \in {"pass", "skipped"} => (last.kind = "pass" /\ ~isTypingRef)
    /\ (timer.pending /\ microtask = 0) =>
        /\ duringChange([Cells EXCEPT !.timer = NoTimer]).isTypingRef
        /\ duringChange([Cells EXCEPT !.timer = NoTimer]).isSynchingFromCodeMirror

\* C19's case: a change from outside was notified while the user was typing,
\* the one moment a graph->text job could be queued with isTypingRef true.
TypingFlagTracksTimerWitness ==
    /\ last.kind = "external"
    /\ isTypingRef
    /\ timer.pending
    /\ restarted
    /\ stringify(heap, rekaProgram) # stringify(heap, currentStateRef)

-----------------------------------------------------------------------------
(* Objects the snapshot and the live graph have in common *)

KeyNames(getTarget) == IF getTarget = "globals" THEN GlobalNames ELSE ComponentNames

\* Key n is carried by one and the same object in the live graph and in the
\* snapshot.
Shared(h, live, snapshot, getTarget, n) ==
    WithKey(h, live[getTarget], n) \cap WithKey(h, snapshot[getTarget], n) # {}

\* Key n is in neither tree.
InNeither(h, live, snapshot, getTarget, n) ==
    /\ n \notin Keys(h, live[getTarget])
    /\ n \notin Keys(h, snapshot[getTarget])

\* C20 (as claimed): a pass whose code parsed and declares a key neither tree
\* held leaves that key on one object common to the snapshot and the live
\* graph; a key on a common object stays on it until a graph->text pass
\* replaces the snapshot or is queued to, unless the key leaves both trees;
\* and an object comes to be common to the two trees in no other way.
SharedOnlyByNewKeys ==
    [][\A getTarget \in {"globals", "components"} :
       \A n \in KeyNames(getTarget) :
        /\ (/\ timer.pending
            /\ ~timer'.pending
            /\ Parses(timer.code)
            /\ n \in Range(DeclaredNames(timer.code,
                        IF getTarget = "globals" THEN "val" ELSE "component"))
            /\ InNeither(heap, rekaProgram, currentStateRef, getTarget, n))
           => Shared(heap', rekaProgram', currentStateRef', getTarget, n)
        /\ (/\ Shared(heap, rekaProgram, currentStateRef, getTarget, n)
            /\ ~Shared(heap', rekaProgram', currentStateRef', getTarget, n))
           => \/ microtask' < microtask
              \/ microtask' > 0
              \/ InNeither(heap', rekaProgram', currentStateRef', getTarget, n)
        /\ (/\ Shared(heap', rekaProgram', currentStateRef', getTarget, n)
            /\ ~Shared(heap, rekaProgram, currentStateRef, getTarget, n))
           => /\ timer.pending
              /\ ~timer'.pending
              /\ InNeither(heap, rekaProgram, currentStateRef, getTarget, n)]_vars

====
